---- MODULE Spec2Model ----
(***************************************************************************)
(* Model of the intrusive doubly-linked list of sorokin/intrusive_list.    *)
(*                                                                         *)
(* A link node (list_element_base) is a pair of pointers prev/next.  The   *)
(* nodes of the model are the embedded links of NumElems elements and the  *)
(* sentinels ("fake") of NumLists lists of one tag, plus the sentinel of   *)
(* one list of a second tag and the second link of the elements that embed *)
(* both tags.  Pointers are node numbers, Null is 0.                       *)
(* The ring operations of intrusive_list.cpp are                           *)
(* operators on a heap record [prev, next, fault], written statement by    *)
(* statement so that aliasing between the references they take behaves as  *)
(* in the code; the list methods of intrusive_list.h are operators built   *)
(* from them, and every action of the state machine is one call.           *)
(***************************************************************************)
EXTENDS Integers, Sequences, FiniteSets

NumElems == 3
NumLists == 2

Null == 0
\* what the storage of a destroyed object holds: no pointer the program wrote
Junk == 0 - 1
Elems == 1..NumElems
Lists == 1..NumLists

\* &fake of list l
Fake(l) == NumElems + l

\* A second tag.  The elements and lists above are those of tag 1; the first
\* element embeds a list_element of tag 2 as well, and there is one list of
\* tag 2.
List2 == NumLists + 1
TwoTagged == {1}

\* to_base<Tag>(obj) that yields the same link whatever the tag
to_base_AnyTag(tag, obj) == obj

\* to_base<Tag>(obj): the link node of tag Tag that element obj embeds
to_base(tag, obj) == IF tag = 1 THEN obj ELSE Fake(List2) + obj

\* the link nodes of tag 2
Nodes2 == {Fake(List2)} \union {to_base(2, e) : e \in TwoTagged}

NumNodes == Fake(List2) + Cardinality(TwoTagged)
Nodes == 1..NumNodes

VARIABLES
    prev,      \* list_element_base::prev of every node
    next,      \* list_element_base::next of every node
    fault,     \* "none", or how the program stopped: "assert", "null_deref", "hang"
    live,      \* the nodes whose object is constructed and not yet destroyed
    content,   \* per list, the elements put into it and not yet removed, in order
    track,     \* the names of the calls that are recorded in op
    op         \* the last call, when it is a recorded one: its arguments and result

vars == <<prev, next, fault, live, content, track, op>>

\* the heap the operators below work on
H == [prev |-> prev, next |-> next, fault |-> fault]

Fail(h, why) == [h EXCEPT !.fault = why]

\* the storage of node n after its object's lifetime has ended
Release(h, n) == [h EXCEPT !.prev[n] = Junk, !.next[n] = Junk]

----------------------------------------------------------------------------
(* intrusive_list.cpp                                                      *)

\* triswap(a, b, c) on three references into one pointer field f, given as
\* the nodes la, lb, lc that hold them: copy = a; a = b; b = c; c = copy
triswap(f, la, lb, lc) ==
    LET copy == f[la]
        f1 == [f EXCEPT ![la] = f[lb]]
        f2 == [f1 EXCEPT ![lb] = f1[lc]]
    IN  [f2 EXCEPT ![lc] = copy]

\* unlink() that asserts only that prev and next are not null
unlink_NullAssertsOnly(h, n) ==
    IF n = Null THEN Fail(h, "null_deref")
    ELSE IF h.prev[n] = Null \/ h.next[n] = Null
    THEN Fail(h, "assert")
    ELSE LET h1 == [h EXCEPT !.next[h.prev[n]] = h.next[n]]
             h2 == [h1 EXCEPT !.prev[h1.next[n]] = h1.prev[n]]
             h3 == [h2 EXCEPT !.prev[n] = Null]
         IN  [h3 EXCEPT !.next[n] = Null]

unlink(h, n) ==
    IF n = Null THEN Fail(h, "null_deref")
    ELSE IF h.prev[n] = Null \/ h.next[n] = Null \/ h.prev[n] = n \/ h.next[n] = n
    THEN Fail(h, "assert")
    ELSE LET h1 == [h EXCEPT !.next[h.prev[n]] = h.next[n]]
             h2 == [h1 EXCEPT !.prev[h1.next[n]] = h1.prev[n]]
             h3 == [h2 EXCEPT !.prev[n] = Null]
         IN  [h3 EXCEPT !.next[n] = Null]

\* try_unlink() that calls unlink() whatever prev is
try_unlink_Always(h, n) ==
    IF (h.prev[n] = Null) # (h.next[n] = Null)
    THEN Fail(h, "assert")
    ELSE unlink(h, n)

try_unlink(h, n) ==
    IF (h.prev[n] = Null) # (h.next[n] = Null)
    THEN Fail(h, "assert")
    ELSE IF h.prev[n] # Null THEN unlink(h, n) ELSE h

\* the loop of clear(): p runs over the ring of s until it is back at s
RECURSIVE clearLoop(_, _, _, _)
clearLoop(h, s, p, fuel) ==
    IF p = s THEN h
    ELSE IF p = Null THEN Fail(h, "null_deref")
    ELSE IF fuel = 0 THEN Fail(h, "hang")
    ELSE LET n == h.next[p]
             h1 == [h EXCEPT !.prev[p] = Null]
             h2 == [h1 EXCEPT !.next[p] = Null]
         IN  clearLoop(h2, s, n, fuel - 1)

\* clear() that resets the sentinel and leaves the elements as they are
clear_SentinelOnly(h, s) ==
    LET h2 == [h EXCEPT !.prev[s] = s]
    IN  [h2 EXCEPT !.next[s] = s]

clear(h, s) ==
    LET h1 == clearLoop(h, s, h.next[s], NumNodes)
    IN  IF h1.fault # "none" THEN h1
        ELSE LET h2 == [h1 EXCEPT !.prev[s] = s]
             IN  [h2 EXCEPT !.next[s] = s]

\* insert() without its last statement, prev = &obj
insert_NoBackLink(h, t, obj) ==
    IF t = Null \/ h.prev[t] = Null THEN Fail(h, "null_deref")
    ELSE LET h1 == [h EXCEPT !.next[obj] = t]
             h2 == [h1 EXCEPT !.prev[obj] = h1.prev[t]]
         IN  [h2 EXCEPT !.next[h2.prev[t]] = obj]

\* this->insert(obj), this = t
insert(h, t, obj) ==
    IF t = Null THEN Fail([h EXCEPT !.next[obj] = t], "null_deref")
    ELSE
    LET h1 == [h EXCEPT !.next[obj] = t]
        h2 == [h1 EXCEPT !.prev[obj] = h1.prev[t]]
    IN  IF h2.prev[t] = Null THEN Fail(h2, "null_deref")
        ELSE LET h3 == [h2 EXCEPT !.next[h2.prev[t]] = obj]
             IN  [h3 EXCEPT !.prev[t] = obj]

\* splice() whose second rotation names last.prev and first.prev the other
\* way round
splice_PrevRotatedBack(h, t, first, last) ==
    IF first = last THEN h
    ELSE IF t = Null \/ first = Null \/ last = Null THEN Fail(h, "null_deref")
    ELSE IF h.prev[t] = Null \/ h.prev[first] = Null \/ h.prev[last] = Null
    THEN Fail(h, "null_deref")
    ELSE LET nx == triswap(h.next, h.prev[t], h.prev[first], h.prev[last])
             pv == triswap(h.prev, t, first, last)
         IN  [h EXCEPT !.next = nx, !.prev = pv]

\* splice() without its test for an empty range
splice_NoEmptyCheck(h, t, first, last) ==
    IF t = Null \/ first = Null \/ last = Null THEN Fail(h, "null_deref")
    ELSE IF h.prev[t] = Null \/ h.prev[first] = Null \/ h.prev[last] = Null
    THEN Fail(h, "null_deref")
    ELSE LET nx == triswap(h.next, h.prev[t], h.prev[first], h.prev[last])
             pv == triswap(h.prev, t, last, first)
         IN  [h EXCEPT !.next = nx, !.prev = pv]

\* this->splice(first, last), this = t
splice(h, t, first, last) ==
    IF first = last THEN h
    ELSE IF t = Null \/ first = Null \/ last = Null THEN Fail(h, "null_deref")
    ELSE IF h.prev[t] = Null \/ h.prev[first] = Null \/ h.prev[last] = Null
    THEN Fail(h, "null_deref")
    ELSE LET nx == triswap(h.next, h.prev[t], h.prev[first], h.prev[last])
             pv == triswap(h.prev, t, last, first)
         IN  [h EXCEPT !.next = nx, !.prev = pv]

----------------------------------------------------------------------------
(* intrusive_list.h                                                        *)

\* a constructor that initialises prev alone
list_element_ctor_PrevOnly(h, e) == [h EXCEPT !.prev[e] = Null]

\* list_element<Tag>::list_element()
list_element_ctor(h, e) == [h EXCEPT !.prev[e] = Null, !.next[e] = Null]

\* a destructor that leaves the element where it is
list_element_dtor_NoUnlink(h, e) == h

\* list_element<Tag>::~list_element()
list_element_dtor(h, e) == try_unlink(h, e)

\* list::list()
list_ctor(h, l) == [h EXCEPT !.prev[Fake(l)] = Fake(l), !.next[Fake(l)] = Fake(l)]

begin(h, l) == h.next[Fake(l)]
end(h, l) == Fake(l)
empty(h, l) == h.prev[Fake(l)] = Fake(l)
front(h, l) == h.next[Fake(l)]
back(h, l) == h.prev[Fake(l)]

\* list::splice(pos, other, first, last)
list_splice(h, pos, first, last) == splice(h, pos, first, last)

\* a move constructor that copies the sentinel's two pointers and empties
\* the source, without updating the nodes that refer to the source's sentinel
list_move_ctor_Shallow(h, l, other) ==
    IF h.next[Fake(other)] = Fake(other) THEN list_ctor(h, l)
    ELSE LET h1 == [h EXCEPT !.prev[Fake(l)] = h.prev[Fake(other)],
                             !.next[Fake(l)] = h.next[Fake(other)]]
         IN  list_ctor(h1, other)

\* list::list(list&& other)
list_move_ctor(h, l, other) ==
    LET h1 == list_ctor(h, l)
    IN  list_splice(h1, end(h1, l), begin(h1, other), end(h1, other))

\* a destructor that does not clear the ring
list_dtor_NoClear(h, l) == h

\* list::~list()
list_dtor(h, l) == clear(h, Fake(l))

\* a move assignment that does not clear the target first
list_move_assign_NoClear(h, l, other) ==
    list_splice(h, end(h, l), begin(h, other), end(h, other))

\* list::operator=(list&& other)
list_move_assign(h, l, other) ==
    LET h1 == clear(h, Fake(l))
    IN  IF h1.fault # "none" THEN h1
        ELSE list_splice(h1, end(h1, l), begin(h1, other), end(h1, other))

list_clear(h, l) == clear(h, Fake(l))

\* push_back() that inserts before the first element, as push_front() does
push_back_BeforeBegin(h, l, obj) == insert(h, h.next[Fake(l)], obj)

push_back(h, l, obj) == insert(h, Fake(l), obj)

pop_back(h, l) == unlink(h, h.prev[Fake(l)])

\* push_front() that inserts before the sentinel, as push_back() does
push_front_BeforeFake(h, l, obj) == insert(h, Fake(l), obj)

push_front(h, l, obj) == insert(h, h.next[Fake(l)], obj)

pop_front(h, l) == unlink(h, h.next[Fake(l)])

\* insert(pos, obj) that links obj after pos
list_insert_AfterPos(h, pos, obj) == insert(h, h.next[pos], obj)

\* list::insert(pos, obj): the heap after it, and the position it returns,
\* iterator(&base)
list_insert(h, pos, obj) == insert(h, pos, obj)

list_insert_ret(h, pos, obj) == obj

\* erase() that reads pos.current->next after the unlink
list_erase_ret_AfterUnlink(h, pos) == unlink(h, pos).next[pos]

\* list::erase(pos): the heap after it, and the position it returns
list_erase(h, pos) == unlink(h, pos)

list_erase_ret(h, pos) == h.next[pos]

----------------------------------------------------------------------------
(* Traversal, as a caller does it with begin(), end(), ++ and --           *)

\* the nodes met from cur, following f, before s (or a null pointer) is met
RECURSIVE Walk(_, _, _, _)
Walk(f, s, cur, fuel) ==
    IF cur = s \/ cur \notin Nodes \/ fuel = 0 THEN <<>>
    ELSE <<cur>> \o Walk(f, s, f[cur], fuel - 1)

\* the node at which that walk stops
RECURSIVE WalkEnd(_, _, _, _)
WalkEnd(f, s, cur, fuel) ==
    IF cur = s \/ cur \notin Nodes \/ fuel = 0 THEN cur
    ELSE WalkEnd(f, s, f[cur], fuel - 1)

\* for (it = begin(); it != end(); ++it)
Fwd(h, l) == Walk(h.next, Fake(l), h.next[Fake(l)], NumNodes)
\* for (it = end(); it != begin(); ) --it
Bwd(h, l) == Walk(h.prev, Fake(l), h.prev[Fake(l)], NumNodes)
FwdClosed(h, l) == WalkEnd(h.next, Fake(l), h.next[Fake(l)], NumNodes) = Fake(l)
BwdClosed(h, l) == WalkEnd(h.prev, Fake(l), h.prev[Fake(l)], NumNodes) = Fake(l)

\* the positions of list l: its elements in order, then end()
Positions(h, l) == Fwd(h, l) \o <<Fake(l)>>

----------------------------------------------------------------------------
(* Sequences                                                               *)

Range(s) == {s[i] : i \in 1..Len(s)}
Reverse(s) == [i \in 1..Len(s) |-> s[Len(s) + 1 - i]]
Without(s, x) == SelectSeq(s, LAMBDA y : y # x)
WithoutAll(s, xs) == SelectSeq(s, LAMBDA y : y \notin xs)
\* the index of x in s, Len(s) + 1 when it is not there (the end position)
IndexOf(s, x) ==
    IF x \in Range(s) THEN CHOOSE i \in 1..Len(s) : s[i] = x ELSE Len(s) + 1
\* s with the sequence t put before index i
InsertSeq(s, i, t) == SubSeq(s, 1, i - 1) \o t \o SubSeq(s, i, Len(s))

\* the elements that are in some list
Linked == UNION {Range(content[l]) : l \in Lists}
\* the list that holds element e, 0 when none does
Holder(e) == IF e \in Linked THEN CHOOSE l \in Lists : e \in Range(content[l]) ELSE 0

----------------------------------------------------------------------------
(* The caller's view of the lists: what each call does to the sequence of  *)
(* elements a list holds                                                   *)

SpliceContent(c, l, pos, src, first, last) ==
    LET i == IndexOf(c[src], first)
        j == IndexOf(c[src], last)
        moved == SubSeq(c[src], i, j - 1)
        rest == [c EXCEPT ![src] = WithoutAll(c[src], Range(moved))]
    IN  [rest EXCEPT ![l] = InsertSeq(rest[l], IndexOf(rest[l], pos), moved)]

NoOp ==
    [name |-> "none", l |-> 0, src |-> 0, n |-> 0, first |-> 0, last |-> 0,
     ret |-> 0, had |-> 0]

\* the record of a call: its list l (for a call on an element, the list that
\* held it, 0 when none did), its other list src, its element or position n,
\* its range (for insert, first is the element inserted), what it returned,
\* and how many elements l held before it
Op(name, l, src, n, first, last, ret) ==
    IF name \in track
    THEN [name |-> name, l |-> l, src |-> src, n |-> n,
          first |-> first, last |-> last, ret |-> ret,
          had |-> IF l \in Lists THEN Len(content[l]) ELSE 0]
    ELSE NoOp

\* the heap h, computed once, becomes the heap of the next state
Apply(h) == \E g \in {h} : prev' = g.prev /\ next' = g.next /\ fault' = g.fault

----------------------------------------------------------------------------
(* State machine: one action per call                                      *)

\* the sentinels of all lists, of either tag
Fakes == {Fake(l) : l \in Lists \union {List2}}

\* every list constructed and empty, every element constructed and in no list
Constructed ==
    /\ prev = [n \in Nodes |-> IF n \in Fakes THEN n ELSE Null]
    /\ next = [n \in Nodes |-> IF n \in Fakes THEN n ELSE Null]
    /\ fault = "none"
    /\ live = Nodes
    /\ content = [l \in Lists |-> <<>>]
    /\ op = NoOp

Init == Constructed /\ track = {}

\* a new element object in the storage of a destroyed one
ElemCtor(e) ==
    /\ fault = "none" /\ e \notin live
    /\ Apply(list_element_ctor(H, e))
    /\ live' = live \union {e}
    /\ content' = content
    /\ op' = Op("elem_ctor", 0, 0, e, 0, 0, 0)
    /\ UNCHANGED track

ElemDtor(e) ==
    /\ fault = "none" /\ e \in live
    /\ Apply(Release(list_element_dtor(H, e), e))
    /\ live' = live \ {e}
    /\ content' = [l \in Lists |-> Without(content[l], e)]
    /\ op' = Op("elem_dtor", Holder(e), 0, e, 0, 0, 0)
    /\ UNCHANGED track

\* e.unlink(), e a member of some list
ElemUnlink(e) ==
    /\ fault = "none" /\ e \in live /\ e \in Linked
    /\ Apply(unlink(H, e))
    /\ content' = [l \in Lists |-> Without(content[l], e)]
    /\ op' = Op("unlink", Holder(e), 0, e, 0, 0, 0)
    /\ UNCHANGED <<live, track>>

ListCtor(l) ==
    /\ fault = "none" /\ Fake(l) \notin live
    /\ Apply(list_ctor(H, l))
    /\ live' = live \union {Fake(l)}
    /\ content' = [content EXCEPT ![l] = <<>>]
    /\ op' = Op("list_ctor", l, 0, 0, 0, 0, 0)
    /\ UNCHANGED track

ListMoveCtor(l, other) ==
    /\ fault = "none" /\ Fake(l) \notin live /\ Fake(other) \in live
    /\ Apply(list_move_ctor(H, l, other))
    /\ live' = live \union {Fake(l)}
    /\ content' = [content EXCEPT ![l] = content[other], ![other] = <<>>]
    /\ op' = Op("list_move_ctor", l, other, 0, 0, 0, 0)
    /\ UNCHANGED track

ListDtor(l) ==
    /\ fault = "none" /\ Fake(l) \in live
    /\ Apply(Release(list_dtor(H, l), Fake(l)))
    /\ live' = live \ {Fake(l)}
    /\ content' = [content EXCEPT ![l] = <<>>]
    /\ op' = Op("list_dtor", l, 0, 0, 0, 0, 0)
    /\ UNCHANGED track

\* l = std::move(other); other may be l itself
ListMoveAssign(l, other) ==
    /\ fault = "none" /\ Fake(l) \in live /\ Fake(other) \in live
    /\ Apply(list_move_assign(H, l, other))
    /\ content' = [[content EXCEPT ![other] = <<>>] EXCEPT
                      ![l] = IF other = l THEN <<>> ELSE content[other]]
    /\ op' = Op("list_move_assign", l, other, 0, 0, 0, 0)
    /\ UNCHANGED <<live, track>>

ListClear(l) ==
    /\ fault = "none" /\ Fake(l) \in live
    /\ Apply(list_clear(H, l))
    /\ content' = [content EXCEPT ![l] = <<>>]
    /\ op' = Op("clear", l, 0, 0, 0, 0, 0)
    /\ UNCHANGED <<live, track>>

PushBack(l, e) ==
    /\ fault = "none" /\ Fake(l) \in live /\ e \in live /\ e \notin Linked
    /\ Apply(push_back(H, l, e))
    /\ content' = [content EXCEPT ![l] = Append(content[l], e)]
    /\ op' = Op("push_back", l, 0, e, 0, 0, 0)
    /\ UNCHANGED <<live, track>>

PushFront(l, e) ==
    /\ fault = "none" /\ Fake(l) \in live /\ e \in live /\ e \notin Linked
    /\ Apply(push_front(H, l, e))
    /\ content' = [content EXCEPT ![l] = <<e>> \o content[l]]
    /\ op' = Op("push_front", l, 0, e, 0, 0, 0)
    /\ UNCHANGED <<live, track>>

PopBack(l) ==
    /\ fault = "none" /\ Fake(l) \in live /\ content[l] # <<>>
    /\ Apply(pop_back(H, l))
    /\ content' = [content EXCEPT ![l] = SubSeq(content[l], 1, Len(content[l]) - 1)]
    /\ op' = Op("pop_back", l, 0, 0, 0, 0, 0)
    /\ UNCHANGED <<live, track>>

PopFront(l) ==
    /\ fault = "none" /\ Fake(l) \in live /\ content[l] # <<>>
    /\ Apply(pop_front(H, l))
    /\ content' = [content EXCEPT ![l] = Tail(content[l])]
    /\ op' = Op("pop_front", l, 0, 0, 0, 0, 0)
    /\ UNCHANGED <<live, track>>

\* l.insert(pos, e), pos any position of l
Insert(l, pos, e) ==
    /\ fault = "none" /\ Fake(l) \in live /\ e \in live /\ e \notin Linked
    /\ pos \in Range(Positions(H, l))
    /\ Apply(list_insert(H, pos, e))
    /\ content' = [content EXCEPT
                      ![l] = InsertSeq(content[l], IndexOf(content[l], pos), <<e>>)]
    /\ op' = Op("insert", l, 0, pos, e, 0, list_insert_ret(H, pos, e))
    /\ UNCHANGED <<live, track>>

\* l.erase(pos), pos a position of l other than end()
Erase(l, pos) ==
    /\ fault = "none" /\ Fake(l) \in live
    /\ pos \in Range(Fwd(H, l))
    /\ Apply(list_erase(H, pos))
    /\ content' = [content EXCEPT ![l] = Without(content[l], pos)]
    /\ op' = Op("erase", l, 0, pos, 0, 0, list_erase_ret(H, pos))
    /\ UNCHANGED <<live, track>>

\* [first, last) is a range of list src: first is met before last, or is last
IsRange(h, src, first, last) ==
    /\ first \in Range(Positions(h, src))
    /\ last \in Range(Walk(h.next, Fake(src), first, NumNodes)) \union {Fake(src)}

\* the nodes of the range [first, last)
RangeNodes(h, first, last) == Range(Walk(h.next, last, first, NumNodes))

\* l.splice(pos, src, first, last) of a range that is not empty; within one
\* list pos is neither in the range nor its end
Splice(l, pos, src, first, last) ==
    /\ fault = "none" /\ Fake(l) \in live /\ Fake(src) \in live
    /\ pos \in Range(Positions(H, l))
    /\ IsRange(H, src, first, last) /\ first # last
    /\ src = l => pos \notin RangeNodes(H, first, last) \union {last}
    /\ Apply(list_splice(H, pos, first, last))
    /\ content' = SpliceContent(content, l, pos, src, first, last)
    /\ op' = Op(IF src = l THEN "splice_self" ELSE "splice",
                 l, src, pos, first, last, 0)
    /\ UNCHANGED <<live, track>>

\* l.splice(pos, src, p, p): the empty range at position p of src
SpliceEmpty(l, pos, src, p) ==
    /\ fault = "none" /\ Fake(l) \in live /\ Fake(src) \in live
    /\ pos \in Range(Positions(H, l))
    /\ p \in Range(Positions(H, src))
    /\ Apply(list_splice(H, pos, p, p))
    /\ content' = SpliceContent(content, l, pos, src, p, p)
    /\ op' = Op("splice_empty", l, src, pos, p, p, 0)
    /\ UNCHANGED <<live, track>>

\* l.splice(last, l, first, last) with a range that is not empty
SpliceAtLast(l, first, last) ==
    /\ fault = "none" /\ Fake(l) \in live
    /\ IsRange(H, l, first, last) /\ first # last
    /\ Apply(list_splice(H, last, first, last))
    /\ content' = SpliceContent(content, l, last, l, first, last)
    /\ op' = Op("splice_at_last", l, l, last, first, last, 0)
    /\ UNCHANGED <<live, track>>

\* list2.push_back(x) for the list of tag 2: fake.insert(to_base<Tag>(x)), x
\* in no list of tag 2
PushBack2(e) ==
    /\ fault = "none" /\ e \in TwoTagged \cap live
    /\ prev[to_base(2, e)] = Null /\ next[to_base(2, e)] = Null
    /\ Apply(push_back(H, List2, to_base(2, e)))
    /\ op' = Op("tag2", 0, 0, 0, 0, 0, 0)
    /\ UNCHANGED <<live, content, track>>

\* list2.erase(pos) for the list of tag 2, pos the position of x
Erase2(e) ==
    /\ fault = "none" /\ e \in TwoTagged \cap live
    /\ to_base(2, e) \in Range(Fwd(H, List2))
    /\ Apply(list_erase(H, to_base(2, e)))
    /\ op' = Op("tag2", 0, 0, 0, 0, 0, 0)
    /\ UNCHANGED <<live, content, track>>

Next ==
    \/ \E e \in Elems : ElemCtor(e)
    \/ \E e \in Elems : ElemDtor(e)
    \/ \E e \in Elems : ElemUnlink(e)
    \/ \E l \in Lists : ListCtor(l)
    \/ \E l \in Lists : \E other \in Lists \ {l} : ListMoveCtor(l, other)
    \/ \E l \in Lists : ListDtor(l)
    \/ \E l \in Lists, other \in Lists : ListMoveAssign(l, other)
    \/ \E l \in Lists : ListClear(l)
    \/ \E l \in Lists, e \in Elems : PushBack(l, e)
    \/ \E l \in Lists, e \in Elems : PushFront(l, e)
    \/ \E l \in Lists : PopBack(l)
    \/ \E l \in Lists : PopFront(l)
    \/ \E l \in Lists : \E pos \in Range(Positions(H, l)), e \in Elems : Insert(l, pos, e)
    \/ \E l \in Lists : \E pos \in Range(Fwd(H, l)) : Erase(l, pos)
    \/ \E l \in Lists, src \in Lists :
           \E pos \in Range(Positions(H, l)), P \in {Positions(H, src)} :
               \E i \in 1..Len(P) : \E j \in (i + 1)..Len(P) :
                   Splice(l, pos, src, P[i], P[j])

Spec == Init /\ [][Next]_vars

\* the same program with the calls of some names recorded in op
InitElem == Constructed /\ track = {"elem_ctor", "elem_dtor"}
SpecElem == InitElem /\ [][Next]_vars
InitSplice == Constructed /\ track = {"splice"}
SpecSplice == InitSplice /\ [][Next]_vars
InitSpliceSelf == Constructed /\ track = {"splice_self"}
SpecSpliceSelf == InitSpliceSelf /\ [][Next]_vars
InitMove == Constructed /\ track = {"list_move_ctor", "list_move_assign"}
SpecMove == InitMove /\ [][Next]_vars
InitClear == Constructed /\ track = {"clear", "list_dtor"}
SpecClear == InitClear /\ [][Next]_vars
InitErase == Constructed /\ track = {"erase"}
SpecErase == InitErase /\ [][Next]_vars
InitInsert == Constructed /\ track = {"insert"}
SpecInsert == InitInsert /\ [][Next]_vars
InitDeque == Constructed /\ track = {"push_back", "push_front", "pop_back", "pop_front"}
SpecDeque == InitDeque /\ [][Next]_vars

\* the same program, whose last call splices an empty range
NextEmpty ==
    \/ op.name # "splice_empty" /\ Next
    \/ /\ op.name # "splice_empty"
       /\ \E l \in Lists, src \in Lists :
              \E pos \in Range(Positions(H, l)), p \in Range(Positions(H, src)) :
                  SpliceEmpty(l, pos, src, p)

InitEmpty == Constructed /\ track = {"splice_empty"}
SpecEmpty == InitEmpty /\ [][NextEmpty]_vars

\* e.try_unlink(), the call the destructor of an element makes; the record
\* tells in first whether the call before it was unlink() of the same element
ElemTryUnlink(e) ==
    /\ fault = "none" /\ e \in live
    /\ Apply(try_unlink(H, e))
    /\ content' = [l \in Lists |-> Without(content[l], e)]
    /\ op' = Op("try_unlink", Holder(e), 0, e,
                 IF op.name = "unlink" /\ op.n = e THEN 1 ELSE 0, 0, 0)
    /\ UNCHANGED <<live, track>>

\* the same program, with try_unlink() called on its own as well
NextUnlink ==
    \/ Next
    \/ \E e \in Elems : ElemTryUnlink(e)

InitUnlink == Constructed /\ track = {"unlink", "try_unlink"}
SpecUnlink == InitUnlink /\ [][NextUnlink]_vars

\* e.unlink() while e is in no list
ElemUnlinkUnlinked(e) ==
    /\ fault = "none" /\ e \in live /\ e \notin Linked
    /\ Apply(unlink(H, e))
    /\ op' = Op("unlink_unlinked", 0, 0, e, 0, 0, 0)
    /\ UNCHANGED <<live, content, track>>

\* l.pop_back() while l is empty
PopBackEmpty(l) ==
    /\ fault = "none" /\ Fake(l) \in live /\ content[l] = <<>>
    /\ Apply(pop_back(H, l))
    /\ op' = Op("pop_back_empty", l, 0, 0, 0, 0, 0)
    /\ UNCHANGED <<live, content, track>>

\* l.pop_front() while l is empty
PopFrontEmpty(l) ==
    /\ fault = "none" /\ Fake(l) \in live /\ content[l] = <<>>
    /\ Apply(pop_front(H, l))
    /\ op' = Op("pop_front_empty", l, 0, 0, 0, 0, 0)
    /\ UNCHANGED <<live, content, track>>

\* the same program, whose caller also breaks the precondition of unlink(),
\* pop_back() and pop_front()
NextMisuse ==
    \/ Next
    \/ \E e \in Elems : ElemUnlinkUnlinked(e)
    \/ \E l \in Lists : PopBackEmpty(l)
    \/ \E l \in Lists : PopFrontEmpty(l)

InitMisuse ==
    Constructed /\ track = {"unlink_unlinked", "pop_back_empty", "pop_front_empty"}
SpecMisuse == InitMisuse /\ [][NextMisuse]_vars

\* l.push_back(e) while e is a member of another list; the caller takes e to
\* have left that list
PushBackLinked(l, e) ==
    /\ fault = "none" /\ Fake(l) \in live /\ e \in live
    /\ e \in Linked /\ Holder(e) # l
    /\ Apply(push_back(H, l, e))
    /\ content' = [m \in Lists |->
                      IF m = l THEN Append(content[l], e) ELSE Without(content[m], e)]
    /\ op' = Op("push_back_linked", l, Holder(e), e, 0, 0, 0)
    /\ UNCHANGED <<live, track>>

\* l.push_front(e) while e is a member of another list
PushFrontLinked(l, e) ==
    /\ fault = "none" /\ Fake(l) \in live /\ e \in live
    /\ e \in Linked /\ Holder(e) # l
    /\ Apply(push_front(H, l, e))
    /\ content' = [m \in Lists |->
                      IF m = l THEN <<e>> \o content[l] ELSE Without(content[m], e)]
    /\ op' = Op("push_front_linked", l, Holder(e), e, 0, 0, 0)
    /\ UNCHANGED <<live, track>>

\* the same program, whose last call pushes an element that is a member of
\* another list
NextPushLinked ==
    \/ op.name \notin {"push_back_linked", "push_front_linked"} /\ Next
    \/ /\ op.name \notin {"push_back_linked", "push_front_linked"}
       /\ \E l \in Lists, e \in Elems : PushBackLinked(l, e)
    \/ /\ op.name \notin {"push_back_linked", "push_front_linked"}
       /\ \E l \in Lists, e \in Elems : PushFrontLinked(l, e)

InitPushLinked ==
    Constructed /\ track = {"push_back", "push_front",
                            "push_back_linked", "push_front_linked"}
SpecPushLinked == InitPushLinked /\ [][NextPushLinked]_vars

\* the same program, whose caller also uses the list of tag 2
NextTags ==
    \/ Next
    \/ \E e \in TwoTagged : PushBack2(e)
    \/ \E e \in TwoTagged : Erase2(e)

InitTags == Constructed /\ track = {"tag2", "erase"}
SpecTags == InitTags /\ [][NextTags]_vars

\* the same program, whose caller in the end splices a range of a list to
\* the range's own end and then erases an element; erase is its last call
NextSelf ==
    \/ op.name \notin {"splice_at_last", "erase"} /\ Next
    \/ /\ op.name \notin {"splice_at_last", "erase"}
       /\ \E l \in Lists :
              \E P \in {Positions(H, l)} :
                  \E i \in 1..Len(P) : \E j \in (i + 1)..Len(P) :
                      SpliceAtLast(l, P[i], P[j])
    \/ /\ op.name = "splice_at_last"
       /\ \E l \in Lists : \E pos \in Range(Fwd(H, l)) : Erase(l, pos)

InitSelf == Constructed /\ track = {"splice_self", "splice_at_last", "erase"}
SpecSelf == InitSelf /\ [][NextSelf]_vars

----------------------------------------------------------------------------
TypeOK ==
    /\ prev \in [Nodes -> Nodes \union {Null, Junk}]
    /\ next \in [Nodes -> Nodes \union {Null, Junk}]
    /\ fault \in {"none", "assert", "null_deref", "hang"}
    /\ \A n \in Nodes \ live : prev[n] = Junk /\ next[n] = Junk
    /\ live \subseteq Nodes
    /\ \A l \in Lists : Range(content[l]) \subseteq Elems

----------------------------------------------------------------------------
(* Properties                                                              *)

NoDuplicates(s) == Cardinality(Range(s)) = Len(s)

\* the sentinel of l is a ring of its own
Singleton(h, l) == h.prev[Fake(l)] = Fake(l) /\ h.next[Fake(l)] = Fake(l)

\* l's ring read forwards is the sequence q, read backwards it is q reversed,
\* and both walks come back to the sentinel
RingIs(h, l, q) ==
    /\ FwdClosed(h, l) /\ BwdClosed(h, l)
    /\ Fwd(h, l) = q
    /\ Bwd(h, l) = Reverse(q)

\* C1: for every live list, walking next from the sentinel comes back to the
\* sentinel after visiting exactly the elements put into the list and not yet
\* removed, each once, walking prev visits them in the reverse order, and an
\* empty list is the singleton ring fake.prev == fake.next == &fake.
C1_RingIsContent ==
    \A l \in Lists :
        Fake(l) \in live =>
            /\ RingIs(H, l, content[l])
            /\ NoDuplicates(Fwd(H, l))
            /\ Range(Fwd(H, l)) \subseteq Elems \cap live
            /\ content[l] = <<>> => Singleton(H, l)

\* two elements in one list while another list holds an element too
C1_Witness ==
    \E l \in Lists, m \in Lists :
        /\ l # m /\ Fake(l) \in live /\ Fake(m) \in live
        /\ Len(Fwd(H, l)) >= 2 /\ Len(Fwd(H, m)) >= 1

Unlinked(h, n) == h.prev[n] = Null /\ h.next[n] = Null

IsLinked(h, n) ==
    /\ h.prev[n] \in Nodes /\ h.next[n] \in Nodes
    /\ h.next[h.prev[n]] = n
    /\ h.prev[h.next[n]] = n

\* C2: every live link node, element or sentinel, is either unlinked (prev and
\* next both null) or linked (both non-null, N.prev.next == N and
\* N.next.prev == N), never with exactly one of the two null; and an element
\* that has just been constructed is unlinked.
C2_LinkedOrUnlinked ==
    /\ [](\A n \in live : Unlinked(H, n) \/ IsLinked(H, n))
    /\ [][\A e \in Elems : (e \notin live /\ e \in live') => Unlinked(H', e)]_vars

\* an element has just been constructed in the storage of a destroyed one,
\* while two other elements are linked next to each other
C2_Witness ==
    /\ op.name = "elem_ctor" /\ Unlinked(H, op.n)
    /\ \E e \in Elems \cap live : IsLinked(H, e) /\ H.prev[e] \in Elems

\* no link field of a node outside the set ns differs between heaps h and g
SameOutside(h, g, ns) ==
    \A n \in Nodes \ ns : g.prev[n] = h.prev[n] /\ g.next[n] = h.next[n]

\* C3: destroying an element is safe at any time.  Linked in a list: exactly
\* that element leaves the list, the order of the remaining elements is kept,
\* its former neighbours point to each other, no live node refers to it any
\* more, and every other list is unchanged.  Unlinked: the destructor writes
\* no link field at all.
C3_DtorRemovesExactlyIt ==
    [][op'.name = "elem_dtor" =>
        LET e == op'.n IN
        /\ fault' = "none"
        /\ IF ~Unlinked(H, e)
           THEN /\ \A l \in Lists :
                       Fake(l) \in live =>
                           RingIs(H', l, Without(Fwd(H, l), e))
                /\ next'[prev[e]] = next[e]
                /\ prev'[next[e]] = prev[e]
                /\ \A n \in live' : prev'[n] # e /\ next'[n] # e
                /\ SameOutside(H, H', {e, prev[e], next[e]})
           ELSE /\ list_element_dtor(H, e) = H
                /\ SameOutside(H, H', {e})
    ]_vars

\* an element was destroyed while it was in a list that still holds two
\* elements, next to each other
C3_Witness ==
    /\ op.name = "elem_dtor" /\ op.l # 0 /\ op.n \notin live
    /\ Fake(op.l) \in live /\ Len(Fwd(H, op.l)) = 2
    /\ op.had = 3

\* erase each node of the sequence ns from its list, in order, and insert
\* each one before pos
RECURSIVE EraseInsertEach(_, _, _)
EraseInsertEach(h, pos, ns) ==
    IF ns = <<>> THEN h
    ELSE EraseInsertEach(list_insert(list_erase(h, Head(ns)), pos, Head(ns)),
                         pos, Tail(ns))

\* C4: for two distinct lists X and Y, a position pos of Y and a range
\* [first, last) of X, Y.splice(pos, X, first, last) leaves X and Y with the
\* forward and backward orders that erasing each element of the range from X,
\* in order, and inserting each before pos in Y leaves them with, and touches
\* no node outside the two lists; an empty range changes nothing.
C4_SpliceIsEraseInsert ==
    /\ [](\A l \in Lists, src \in Lists :
              (l # src /\ Fake(l) \in live /\ Fake(src) \in live) =>
                  \A pos \in Range(Positions(H, l)), p \in Range(Positions(H, src)) :
                      list_splice(H, pos, p, p) = EraseInsertEach(H, pos, <<>>))
    /\ [][op'.name = "splice" =>
            /\ op'.l # op'.src /\ op'.first # op'.last
            \* the heap, and with it every forward and backward walk, is the
            \* one that erasing and inserting the elements one by one gives
            /\ H' = EraseInsertEach(H, op'.n, Walk(next, op'.last, op'.first, NumNodes))
            /\ fault' = "none"
            \* both lists are well-formed rings, in the order a caller expects
            /\ \A l \in {op'.l, op'.src} : RingIs(H', l, content'[l])
            /\ SameOutside(H, H', Range(Positions(H, op'.l))
                                      \union Range(Positions(H, op'.src)))
       ]_vars

\* two elements, up to the end of their list, were spliced before the only
\* element of another list
C4_Witness ==
    /\ op.name = "splice" /\ op.l # op.src
    /\ op.n \in Elems /\ op.had = 1 /\ op.last = Fake(op.src)
    /\ Fwd(H, op.l) = <<op.first, prev[op.n], op.n>>
    /\ Fwd(H, op.src) = <<>>

\* an element from the middle of a list of two was spliced to the end of
\* another list that held one
C4_WitnessMiddle ==
    /\ op.name = "splice" /\ op.l # op.src
    /\ op.n = Fake(op.l) /\ op.had = 1 /\ op.last \in Elems
    /\ Len(Fwd(H, op.l)) = 2 /\ Len(Fwd(H, op.src)) = 1

\* the order of list l after the range [first, last) of l itself has been
\* taken out and put back before pos, from the order before the call
SelfSpliceOrder(h, l, pos, first, last) ==
    LET R == Walk(h.next, last, first, NumNodes)
        rest == WithoutAll(Fwd(h, l), Range(R))
    IN  InsertSeq(rest, IndexOf(rest, pos), R)

\* what a splice within one list must leave: a well-formed ring with the
\* elements in the expected order
SelfSpliceOk ==
    LET l == op'.l
    IN  /\ fault' = "none"
        /\ RingIs(H', l, SelfSpliceOrder(H, l, op'.n, op'.first, op'.last))
        /\ \A n \in Range(Positions(H', l)) : IsLinked(H', n)
        /\ SameOutside(H, H', Range(Positions(H, l)))

\* C5: when pos, first and last are positions of one list L, first reaches
\* last, and pos is not an element of [first, last) (pos may equal last),
\* L.splice(pos, L, first, last) leaves L a well-formed ring holding the same
\* elements, in the old order with the range taken out and put back before
\* pos; with pos == last the order of L is unchanged.
C5_SelfSplice ==
    [][op'.name \in {"splice_self", "splice_at_last"} =>
          /\ SelfSpliceOk
          /\ op'.n = op'.last => Fwd(H', op'.l) = Fwd(H, op'.l)
    ]_vars

\* the part of C5 the code keeps: pos outside the range and not its end
C5_SelfSpliceAwayFromRange ==
    [][op'.name = "splice_self" => SelfSpliceOk]_vars

\* the first element of a list of three was spliced to the end of that list
C5_WitnessAwayFromRange ==
    /\ op.name = "splice_self" /\ op.n = Fake(op.l) /\ op.had = 3
    /\ op.first \in Elems /\ op.last \in Elems
    /\ Fwd(H, op.l)[3] = op.first

\* C6: move-constructing M2 from M1, empty or not, leaves M1 empty (its
\* sentinel a singleton ring) and M2 holding exactly M1's former elements in
\* the same forward and backward order; every position that designated an
\* element of M1 designates the same element, now in M2's ring; no link of
\* M2's ring refers to M1's sentinel.
C6_MoveCtor ==
    [][op'.name = "list_move_ctor" =>
        LET M2 == op'.l
            M1 == op'.src
        IN  /\ fault' = "none"
            /\ Singleton(H', M1) /\ empty(H', M1) /\ Fwd(H', M1) = <<>>
            /\ RingIs(H', M2, Fwd(H, M1))
            /\ Bwd(H', M2) = Bwd(H, M1)
            /\ \A e \in Range(Fwd(H, M1)) : e \in Range(Fwd(H', M2)) /\ IsLinked(H', e)
            /\ \A n \in Range(Positions(H', M2)) :
                   prev'[n] # Fake(M1) /\ next'[n] # Fake(M1)
            /\ SameOutside(H, H', Range(Positions(H, M1)) \union {Fake(M2)})
    ]_vars

\* a list was move-constructed from a list of two elements
C6_Witness ==
    /\ op.name = "list_move_ctor" /\ Len(Fwd(H, op.l)) = 2
    /\ Singleton(H, op.src)

\* a list was move-constructed from an empty list
C6_WitnessEmpty ==
    /\ op.name = "list_move_ctor" /\ Singleton(H, op.l) /\ Singleton(H, op.src)

\* C7: after a = std::move(b) for two distinct lists, a holds exactly b's
\* former elements in the same order, b is empty, and every element that was
\* in a before is unlinked (prev == next == null) and in neither list.
C7_MoveAssign ==
    [][(op'.name = "list_move_assign" /\ op'.l # op'.src) =>
        LET a == op'.l
            b == op'.src
        IN  /\ fault' = "none"
            /\ RingIs(H', a, Fwd(H, b))
            /\ Bwd(H', a) = Bwd(H, b)
            /\ Singleton(H', b) /\ empty(H', b)
            /\ \A e \in Range(Fwd(H, a)) :
                   /\ Unlinked(H', e)
                   /\ e \notin Range(Fwd(H', a)) \union Range(Fwd(H', b))
    ]_vars

\* a list that held one element was move-assigned a list of two
C7_Witness ==
    /\ op.name = "list_move_assign" /\ op.l # op.src
    /\ op.had = 1 /\ Len(Fwd(H, op.l)) = 2
    /\ \E e \in Elems \cap live : Unlinked(H, e)

\* C8: after L.clear(), L.empty() is true, L's sentinel is a singleton ring,
\* every element that was in L is unlinked (prev == next == null), so that
\* try_unlink or destruction of it changes nothing, and no node outside L's
\* former ring is modified.
C8_Clear ==
    [][op'.name = "clear" =>
        LET l == op'.l IN
        /\ fault' = "none"
        /\ empty(H', l) /\ Singleton(H', l)
        /\ \A e \in Range(Fwd(H, l)) :
               /\ Unlinked(H', e)
               /\ try_unlink(H', e) = H'
               /\ list_element_dtor(H', e) = H'
        /\ SameOutside(H, H', Range(Positions(H, l)))
    ]_vars

\* a list of two elements was cleared while another list held an element
C8_Witness ==
    /\ op.name = "clear" /\ op.had = 2 /\ Singleton(H, op.l)
    /\ \E m \in Lists \ {op.l} : Fake(m) \in live /\ Len(Fwd(H, m)) = 1

\* C9: destroying a list that still holds elements leaves each of them
\* unlinked (prev == next == null); afterwards no live node's prev or next
\* refers to the destroyed sentinel, so try_unlink or destruction of those
\* elements writes to no node.
C9_ListDtor ==
    [][op'.name = "list_dtor" =>
        LET l == op'.l IN
        /\ fault' = "none"
        /\ \A e \in Range(Fwd(H, l)) :
               /\ Unlinked(H', e)
               /\ try_unlink(H', e) = H'
               /\ list_element_dtor(H', e) = H'
        /\ \A n \in live' : prev'[n] # Fake(l) /\ next'[n] # Fake(l)
        /\ SameOutside(H, H', Range(Positions(H, l)))
    ]_vars

\* a list was destroyed while it held two elements
C9_Witness ==
    /\ op.name = "list_dtor" /\ op.had = 2 /\ Fake(op.l) \notin live
    /\ Cardinality({e \in Elems \cap live : Unlinked(H, e)}) >= 2

\* C10: L.erase(pos), pos not end(), removes exactly the element at pos, which
\* becomes unlinked, returns the position that followed pos before the call
\* (end() when pos was the last element), and keeps the order of the other
\* elements of L; L is empty afterwards exactly when pos was its only element.
C10_Erase ==
    [][op'.name = "erase" =>
        LET l == op'.l
            pos == op'.n
            P == Positions(H, l)
        IN  /\ fault' = "none"
            /\ pos \in Range(Fwd(H, l))
            /\ RingIs(H', l, Without(Fwd(H, l), pos))
            /\ Bwd(H', l) = Without(Bwd(H, l), pos)
            /\ Unlinked(H', pos)
            /\ op'.ret = P[IndexOf(P, pos) + 1]
            /\ empty(H', l) <=> Len(Fwd(H, l)) = 1
            /\ SameOutside(H, H', Range(P))
    ]_vars

\* the middle element of a list of three was erased
C10_Witness ==
    /\ op.name = "erase" /\ op.had = 3
    /\ op.ret \in Elems /\ prev[op.ret] \in Elems
    /\ Unlinked(H, op.n)

\* the only element of a list was erased
C10_WitnessLast ==
    /\ op.name = "erase" /\ op.had = 1
    /\ op.ret = Fake(op.l) /\ empty(H, op.l)

\* C11: for any list L, any position pos of L, begin() and end() included, and
\* any unlinked element E, L.insert(pos, E) places E immediately before pos
\* (E.next == pos, E.prev is the old predecessor of pos, which now points to
\* E, as pos does backwards), returns the position of E, leaves the elements
\* that were in L in their old order, forwards and backwards, and writes to no
\* other node.
C11_Insert ==
    [][op'.name = "insert" =>
        LET l == op'.l
            pos == op'.n
            E == op'.first
            P == Positions(H, l)
            i == IndexOf(P, pos)
        IN  /\ fault' = "none"
            /\ pos \in Range(P) /\ Unlinked(H, E)
            /\ next'[E] = pos /\ prev'[E] = prev[pos]
            /\ next'[prev[pos]] = E /\ prev'[pos] = E
            /\ RingIs(H', l, InsertSeq(Fwd(H, l), i, <<E>>))
            /\ op'.ret = E /\ Positions(H', l)[i] = op'.ret
            /\ Without(Fwd(H', l), E) = Fwd(H, l)
            /\ Without(Bwd(H', l), E) = Bwd(H, l)
            /\ SameOutside(H, H', {E, pos, prev[pos]})
    ]_vars

\* an element was inserted between the two elements of a list
C11_Witness ==
    /\ op.name = "insert" /\ op.had = 2
    /\ op.n \in Elems /\ prev[op.first] \in Elems
    /\ Fwd(H, op.l) = <<prev[op.first], op.first, op.n>>

\* an element was inserted at begin() of a list of two
C11_WitnessBegin ==
    /\ op.name = "insert" /\ op.had = 2
    /\ op.n \in Elems /\ begin(H, op.l) = op.first
    /\ Fwd(H, op.l)[2] = op.n

\* an element was inserted at end() of an empty list
C11_WitnessEnd ==
    /\ op.name = "insert" /\ op.had = 0
    /\ op.n = Fake(op.l) /\ Fwd(H, op.l) = <<op.first>>

Last(s) == s[Len(s)]
Front(s) == SubSeq(s, 1, Len(s) - 1)

\* C12: a list is a double-ended sequence.  With S the sequence of the
\* elements put into the list and not yet removed (initially empty), the
\* forward traversal from begin() to end() is S in every state, and on a list
\* that is not empty front() and back() are the first and last item of S;
\* push_back(E) appends E to the traversal, push_front(E) prepends it,
\* pop_back and pop_front take away its last and first item and leave the
\* element removed unlinked.
C12_Deque ==
    /\ [](\A l \in Lists :
              Fake(l) \in live =>
                  /\ Fwd(H, l) = content[l]
                  /\ content[l] # <<>> =>
                         /\ front(H, l) = Head(content[l])
                         /\ back(H, l) = Last(content[l]))
    /\ [][op'.name \in {"push_back", "push_front", "pop_back", "pop_front"} =>
            LET l == op'.l
                S == Fwd(H, l)
            IN  /\ fault' = "none"
                /\ op'.name = "push_back" =>
                       /\ Fwd(H', l) = Append(S, op'.n)
                       /\ content'[l] = Append(content[l], op'.n)
                /\ op'.name = "push_front" =>
                       /\ Fwd(H', l) = <<op'.n>> \o S
                       /\ content'[l] = <<op'.n>> \o content[l]
                /\ op'.name = "pop_back" =>
                       /\ S # <<>> /\ Fwd(H', l) = Front(S)
                       /\ content'[l] = Front(content[l])
                       /\ Unlinked(H', back(H, l))
                /\ op'.name = "pop_front" =>
                       /\ S # <<>> /\ Fwd(H', l) = Tail(S)
                       /\ content'[l] = Tail(content[l])
                       /\ Unlinked(H', front(H, l))
       ]_vars

\* pop_front took the first of three elements; front() and back() are the
\* two that remain
C12_Witness ==
    /\ op.name = "pop_front" /\ op.had = 3
    /\ Len(content[op.l]) = 2
    /\ front(H, op.l) = content[op.l][1] /\ back(H, op.l) = content[op.l][2]

\* push_front put an element before two others
C12_WitnessPushFront ==
    /\ op.name = "push_front" /\ op.had = 2
    /\ front(H, op.l) = op.n /\ Len(Fwd(H, op.l)) = 3

\* pop_back took the only element of a list
C12_WitnessPopBack ==
    /\ op.name = "pop_back" /\ op.had = 1 /\ Fwd(H, op.l) = <<>>

\* C13: tag independence.  With an element that is a member of lists of tag 1
\* under its tag-1 link and of the list of tag 2 under its tag-2 link, every
\* call on a list of tag 1 or on an element's tag-1 link (push,
\* pop, insert, erase, clear, splice, move, unlink, destruction) leaves prev
\* and next of every link node of tag 2 as they were, and with them the ring
\* and the order of the list of tag 2.
C13_TagIndependence ==
    [][op'.name # "tag2" =>
        /\ \A n \in Nodes2 : prev'[n] = prev[n] /\ next'[n] = next[n]
        /\ Fwd(H', List2) = Fwd(H, List2)
        /\ Bwd(H', List2) = Bwd(H, List2)
        /\ FwdClosed(H', List2) /\ BwdClosed(H', List2)
    ]_vars

\* an element in the middle of a list of tag 1 was erased from it while it
\* is in the list of tag 2
C13_Witness ==
    /\ op.name = "erase" /\ op.had = 3 /\ op.n \in TwoTagged
    /\ op.ret \in Elems /\ prev[op.ret] \in Elems
    /\ Fwd(H, List2) = <<to_base(2, op.n)>>
    /\ Bwd(H, List2) = <<to_base(2, op.n)>>
    /\ Unlinked(H, to_base(1, op.n))

\* C14: detachment is idempotent.  unlink() of a linked element followed by
\* try_unlink() of the same node leaves the state after the first call as it
\* is: the second call writes no link field of any node and fails no
\* assertion; try_unlink() of an element that is in no list, never inserted
\* or removed before, changes nothing either.
C14_DetachIdempotent ==
    /\ [](op.name = "unlink" =>
              /\ Unlinked(H, op.n)
              /\ try_unlink(H, op.n) = H)
    /\ [][op'.name = "try_unlink" /\ (op'.first = 1 \/ Unlinked(H, op'.n)) =>
              /\ Unlinked(H, op'.n)
              /\ prev' = prev /\ next' = next /\ fault' = "none"
              /\ content' = content
       ]_vars

\* try_unlink() was called on an element right after unlink() had taken it
\* from between two others
C14_Witness ==
    /\ op.name = "try_unlink" /\ op.first = 1 /\ op.l = 0
    /\ Unlinked(H, op.n)
    /\ \E l \in Lists : Fake(l) \in live /\ Len(Fwd(H, l)) = 2

\* try_unlink() was called on an element of a list
C14_WitnessLinked ==
    /\ op.name = "try_unlink" /\ op.first = 0 /\ op.l # 0 /\ op.had = 2
    /\ Unlinked(H, op.n)

\* C15: splice of an empty range is a no-op.  For any position pos of a list
\* and any position p of the same or of another list, pos itself included,
\* splice(pos, other, p, p) leaves prev and next of every node unchanged.
C15_SpliceEmptyNoOp ==
    [][op'.name = "splice_empty" =>
        /\ op'.first = op'.last
        /\ prev' = prev /\ next' = next /\ fault' = "none"
        /\ \A l \in Lists : Fake(l) \in live => RingIs(H', l, content[l])
    ]_vars

\* the empty range at the second element of a list of two was spliced before
\* the first element of that list
C15_Witness ==
    /\ op.name = "splice_empty" /\ op.l = op.src /\ op.had = 2
    /\ Fwd(H, op.l) = <<op.n, op.first>>

\* the empty range at an element was spliced before that same element
C15_WitnessAtPos ==
    /\ op.name = "splice_empty" /\ op.l = op.src
    /\ op.n = op.first /\ op.n \in Elems

\* the empty range at an element of one list was spliced to the end of
\* another list, which holds an element
C15_WitnessOther ==
    /\ op.name = "splice_empty" /\ op.l # op.src
    /\ op.n = Fake(op.l) /\ op.first \in Elems /\ op.had = 1

\* C16: in every reachable state of a live list, empty() (fake.prev == &fake)
\* is true exactly when begin() == end() (fake.next == &fake) and exactly
\* when no element is a member of the list; a list that has just been
\* constructed is empty.
C16_EmptyIffNoMembers ==
    \A l \in Lists :
        /\ Fake(l) \in live =>
               /\ empty(H, l) <=> begin(H, l) = end(H, l)
               /\ empty(H, l) <=> content[l] = <<>>
               /\ empty(H, l) <=> Fwd(H, l) = <<>>
        /\ empty(list_ctor(H, l), l)

\* C17: in any sequence of calls that respects the documented preconditions
\* (pop_back, pop_front, front, back on a list that is not empty, erase at a
\* position other than end(), push and insert of an unlinked element, unlink()
\* of a linked element), none of the assertions of unlink() and try_unlink()
\* fails, also when they are reached from the destructor of an element.
C17_NoAssertionFails == fault # "assert"

\* C18: misuse of the strict unlink is caught before any write.  unlink() of
\* an unlinked node, and pop_back() or pop_front() of an empty list, which
\* call unlink() on the sentinel of a singleton ring, each fail an assertion
\* of unlink() before any prev or next field is written: the links at the
\* failure are those before the call.
C18_MisuseCaught ==
    [][op'.name \in {"unlink_unlinked", "pop_back_empty", "pop_front_empty"} =>
        /\ fault' = "assert"
        /\ prev' = prev /\ next' = next
        /\ op'.name = "unlink_unlinked" => Unlinked(H, op'.n)
        /\ op'.name # "unlink_unlinked" =>
               /\ Singleton(H, op'.l)
               /\ back(H, op'.l) = Fake(op'.l) /\ front(H, op'.l) = Fake(op'.l)
    ]_vars

\* pop_back() of an empty list failed an assertion while another list holds
\* two elements
C18_Witness ==
    /\ op.name = "pop_back_empty" /\ fault = "assert"
    /\ Singleton(H, op.l)
    /\ \E m \in Lists \ {op.l} : Fake(m) \in live /\ Len(Fwd(H, m)) = 2

\* pop_front() of an empty list failed an assertion
C18_WitnessPopFront ==
    /\ op.name = "pop_front_empty" /\ fault = "assert" /\ Singleton(H, op.l)

\* unlink() of an element that is in no list failed an assertion
C18_WitnessUnlink ==
    /\ op.name = "unlink_unlinked" /\ fault = "assert" /\ Unlinked(H, op.n)
    /\ \E l \in Lists : Fake(l) \in live /\ Len(Fwd(H, l)) = 2

\* what a push of E into l must leave: E last (push_back) or first
\* (push_front) of l, and every list a well-formed ring with its other
\* elements in their old order
PushOk ==
    LET l == op'.l
        E == op'.n
    IN  /\ fault' = "none"
        /\ IF op'.name \in {"push_back", "push_back_linked"}
           THEN RingIs(H', l, Append(Fwd(H, l), E))
           ELSE RingIs(H', l, <<E>> \o Fwd(H, l))
        /\ \A m \in Lists \ {l} :
               Fake(m) \in live => RingIs(H', m, Without(Fwd(H, m), E))

\* C19 as stated: whenever element E is not a member of list L, L.push_back(E)
\* (L.push_front(E)) makes E the last (first) element of L and leaves every
\* list a well-formed ring with its other elements and their order unchanged,
\* also when E is at that moment a member of a different list.
C19_PushNotInThisList ==
    [][op'.name \in {"push_back", "push_front",
                     "push_back_linked", "push_front_linked"} =>
          /\ op'.n \notin Range(Fwd(H, op'.l))
          /\ PushOk
    ]_vars

\* C19 as amended: whenever element E is unlinked, a member of no list,
\* L.push_back(E) (L.push_front(E)) makes E the last (first) element of L and
\* leaves every list a well-formed ring with its other elements and their
\* order unchanged.
C19_PushUnlinked ==
    [][(/\ op'.name \in {"push_back", "push_front",
                          "push_back_linked", "push_front_linked"}
        /\ Unlinked(H, op'.n)) =>
          /\ op'.name \in {"push_back", "push_front"}
          /\ PushOk
          /\ SameOutside(H, H', {op'.n, Fake(op'.l), prev[Fake(op'.l)],
                                  next[Fake(op'.l)]})
    ]_vars

\* an unlinked element was pushed to the back of a list of one while
\* another list holds an element
C19_Witness ==
    /\ op.name = "push_back"
    /\ back(H, op.l) = op.n /\ Len(Fwd(H, op.l)) = 2
    /\ \E m \in Lists \ {op.l} : Fake(m) \in live /\ Len(Fwd(H, m)) = 1

\* an unlinked element was pushed to the front of a list of two
C19_WitnessFront ==
    /\ op.name = "push_front" /\ op.had = 2
    /\ front(H, op.l) = op.n /\ Len(Fwd(H, op.l)) = 3

====
